---------------------------- MODULE Spec2Model ----------------------------
(***************************************************************************)
(* Model of the expense tracker's service layer (src/services.py) over    *)
(* its relational store (src/models.py): groups, shared expenses, splits, *)
(* group balances, budgets and budget alerts.                              *)
(*                                                                         *)
(* Money.  The source keeps amounts in floating point.  The model keeps   *)
(* them as exact rationals: an amount is an integer number of 1/Unit      *)
(* parts of a currency unit, where Unit is divisible by every possible    *)
(* member count, so the division of add_shared_expense is exact.          *)
(* Floating-point rounding is outside the model.                          *)
(*                                                                         *)
(* Store.  The default store is SQLite (src/config.py:20-23): CHECK       *)
(* constraints are enforced, foreign keys are not.  A table is a sequence *)
(* of rows and a row's id is its index; the budgets, which their unique   *)
(* constraint keys, are a set of rows.  accounts gives the username and   *)
(* the email of each user row.  call is the record of the last service    *)
(* call: its arguments and what it returned or printed.  session is the   *)
(* unit of work of get_session (src/database.py) that is under way.       *)
(***************************************************************************)
EXTENDS Integers, Sequences, FiniteSets, TLC

VARIABLES users, accounts, groups, expenses, splits, budgets, alerts,
          email_configured, call, session

vars == <<users, accounts, groups, expenses, splits, budgets, alerts,
          email_configured, call, session>>

(***************************************************************************)
(* Bounds of the model.                                                    *)
(***************************************************************************)
NumUsers == 2
MaxGroups == 2
MaxExpenses == 2
MaxAmount == 2
MaxAlerts == 4

RECURSIVE Fact(_)
Fact(n) == IF n <= 1 THEN 1 ELSE n * Fact(n - 1)

\* One currency unit, in the model's parts.
Unit == Fact(NumUsers)

\* Ids of the registered users, and one id no user row has.
UserIds == 1..NumUsers
GhostUser == NumUsers + 1
AllIds == UserIds \cup {GhostUser}

\* Config.DEFAULT_CATEGORIES: 'Food' .. 'Other' get ids 1..NumCategories.
NumCategories == 8
CategoryIds == 1..NumCategories
Food == 1
NoSuchCategory == NumCategories + 1

\* Expense.group_id / Alert.category_id NULL.
Null == 0

\* datetime.now(): the (month, year) of the running session.
CurrentPeriod == <<11, 2026>>

(***************************************************************************)
(* Helpers over sequences and sets.                                        *)
(***************************************************************************)
RECURSIVE SortedSeq(_)
SortedSeq(S) ==
    IF S = {} THEN << >>
    ELSE LET m == CHOOSE x \in S : \A y \in S : x <= y
         IN  <<m>> \o SortedSeq(S \ {m})

RECURSIVE SumSeq(_)
SumSeq(s) == IF s = << >> THEN 0 ELSE Head(s) + SumSeq(Tail(s))

\* The logged-in user of the session (ExpenseTrackerCLI.current_user).
CurrentUser == CHOOSE u \in UserIds : \A v \in UserIds : u <= v

NoCall == [op |-> "none", ok |-> TRUE]

\* No unit of work is under way and none has run.
NoSession ==
    [pc |-> "idle", unit |-> [op |-> "none"], is_open |-> FALSE,
     raised_in |-> "", committed |-> FALSE, rolled_back |-> FALSE,
     reraised |-> FALSE]

\* Config.DEFAULT_ALERT_THRESHOLD
DEFAULT_ALERT_THRESHOLD == 10

\* The Alert row create_user adds for a new user.
default_alert(user_id, configured) ==
    [user_id |-> user_id, category_id |-> Null,
     threshold_percentage |-> DEFAULT_ALERT_THRESHOLD,
     is_active |-> TRUE, email_notification |-> configured]

\* The user row create_user adds.
account(username, email) == [username |-> username, email |-> email]

\* The store once the users 1..NumUsers have registered: every user row has
\* its default alert; nothing else has been recorded.
Registered(configured) ==
    /\ users = UserIds
    /\ accounts = [u \in UserIds |-> account(u, u)]
    /\ groups = << >>
    /\ expenses = << >>
    /\ splits = << >>
    /\ budgets = {}
    /\ alerts = [u \in UserIds |-> default_alert(u, configured)]
    /\ email_configured = configured
    /\ call = NoCall
    /\ session = NoSession

\* Without SMTP settings in the environment, email is not configured.
Init == Registered(FALSE)

(***************************************************************************)
(* Group expense sharing.                                                  *)
(***************************************************************************)

\* A create_group whose creator leaves the groups created before.
create_group_leaving(created_by, member_ids) ==
    /\ Len(groups) < MaxGroups
    /\ groups' = Append([g \in 1..Len(groups) |->
                            [groups[g] EXCEPT !.members = @ \ {created_by}]],
                        [created_by |-> created_by,
                         members |-> {u \in member_ids : u \in users}])
    /\ call' = [op |-> "create_group", ok |-> TRUE, group_id |-> Len(groups) + 1]
    /\ UNCHANGED <<users, accounts, session, expenses, splits, budgets,
                   alerts, email_configured>>

\* create_group: the members are the ids of member_ids that have a user row;
\* the others are skipped silently.
create_group(created_by, member_ids) ==
    /\ Len(groups) < MaxGroups
    /\ groups' = Append(groups, [created_by |-> created_by,
                                 members |-> {u \in member_ids : u \in users}])
    /\ call' = [op |-> "create_group", ok |-> TRUE, group_id |-> Len(groups) + 1]
    /\ UNCHANGED <<users, accounts, session, expenses, splits, budgets,
                   alerts, email_configured>>

\* The Expense row of add_shared_expense.
SharedExpense(user_id, group_id, category_id, amount) ==
    [user_id |-> user_id, category_id |-> category_id, amount |-> amount,
     group_id |-> group_id, is_shared |-> TRUE, period |-> CurrentPeriod]

\* A split computed over one member too many.
split_amount_off_by_one(amount, member_count) == amount \div (member_count + 1)

\* split_amount = amount / member_count
split_amount(amount, member_count) == amount \div member_count

\* Every split flagged as paid.
paid_flag_always(member_id, user_id) == TRUE

\* paid=(member.id == user_id)
paid_flag(member_id, user_id) == member_id = user_id

\* The ExpenseSplit rows of the equal mode, one per member of the group, in
\* the order the members are loaded (ascending id).
equal_splits(expense_id, user_id, amount, members) ==
    LET order == SortedSeq(members)
    IN  [i \in 1..Len(order) |->
            [expense_id |-> expense_id, user_id |-> order[i],
             amount |-> split_amount(amount, Cardinality(members)),
             paid |-> paid_flag(order[i], user_id)]]

\* The ExpenseSplit rows of the custom mode, one per entry of the mapping
\* (a function from user ids to amounts, iterated in ascending key order).
custom_split_rows_unpaid(expense_id, user_id, custom_splits) ==
    LET order == SortedSeq(DOMAIN custom_splits)
    IN  [i \in 1..Len(order) |->
            [expense_id |-> expense_id, user_id |-> order[i],
             amount |-> custom_splits[order[i]], paid |-> FALSE]]

custom_split_rows(expense_id, user_id, custom_splits) ==
    LET order == SortedSeq(DOMAIN custom_splits)
    IN  [i \in 1..Len(order) |->
            [expense_id |-> expense_id, user_id |-> order[i],
             amount |-> custom_splits[order[i]],
             paid |-> paid_flag(order[i], user_id)]]

\* The rows add_shared_expense adds after the expense: those of the equal
\* mode, those of the mapping, or none when the custom mode gets no mapping.
new_splits_default_equal(expense_id, user_id, amount, members, split_equally, custom_splits) ==
    IF split_equally \/ DOMAIN custom_splits = {}
    THEN equal_splits(expense_id, user_id, amount, members)
    ELSE custom_split_rows(expense_id, user_id, custom_splits)

new_splits(expense_id, user_id, amount, members, split_equally, custom_splits) ==
    IF split_equally THEN equal_splits(expense_id, user_id, amount, members)
    ELSE IF DOMAIN custom_splits # {}
         THEN custom_split_rows(expense_id, user_id, custom_splits)
         ELSE << >>

\* Why add_shared_expense returns None, or "" when it succeeds.
shared_expense_error(group_id, category_id, amount, split_equally, custom_splits) ==
    IF category_id \notin CategoryIds THEN "CategoryNotFound"
    ELSE IF group_id \notin 1..Len(groups) THEN "GroupNotFound"
    ELSE IF ~(amount > 0) THEN "IntegrityError"
    ELSE IF split_equally /\ Cardinality(groups[group_id].members) = 0
         THEN "ZeroDivisionError"
    ELSE IF ~split_equally /\ \E k \in DOMAIN custom_splits : ~(custom_splits[k] >= 0)
         THEN "IntegrityError"
    ELSE ""

add_shared_expense(user_id, group_id, category_id, amount, split_equally, custom_splits) ==
    LET error == shared_expense_error(group_id, category_id, amount,
                                      split_equally, custom_splits)
        expense_id == Len(expenses) + 1
    IN  /\ Len(expenses) < MaxExpenses
        /\ IF error # ""
           THEN /\ call' = [op |-> "add_shared_expense", ok |-> FALSE, error |-> error]
                /\ UNCHANGED <<expenses, splits>>
           ELSE /\ expenses' = Append(expenses,
                        SharedExpense(user_id, group_id, category_id, amount))
                /\ splits' = splits \o new_splits(expense_id, user_id, amount,
                                                  groups[group_id].members,
                                                  split_equally, custom_splits)
                /\ call' = [op |-> "add_shared_expense", ok |-> TRUE,
                            expense_id |-> expense_id, user_id |-> user_id,
                            group_id |-> group_id, amount |-> amount,
                            split_equally |-> split_equally,
                            custom_splits |-> custom_splits]
        /\ UNCHANGED <<users, accounts, session, groups, budgets, alerts,
                       email_configured>>

\* The rows of the query of get_group_balances: the splits joined with their
\* expense and their user, kept when the expense is of the group; in id order.
group_split_rows(group_id) ==
    SelectSeq([i \in 1..Len(splits) |-> i],
              LAMBDA i : /\ expenses[splits[i].expense_id].group_id = group_id
                         /\ splits[i].user_id \in users)

\* The accumulator kept from the previous call instead of a fresh one.
stale_balances ==
    IF call.op = "get_group_balances" THEN call.result ELSE << >>

\* balances = {}
empty_balances == << >>

\* Position of the user's entry in the balances, 0 when it has none.
balance_index(balances, user_id) ==
    IF \E i \in 1..Len(balances) : balances[i].user_id = user_id
    THEN CHOOSE i \in 1..Len(balances) : balances[i].user_id = user_id
    ELSE 0

\* The payer credited with their own share instead of the whole expense.
paid_increment_share(split, expense) == IF split.paid THEN split.amount ELSE 0

\* total_paid += expense.amount
paid_increment(split, expense) == IF split.paid THEN expense.amount ELSE 0

\* One iteration of the loop over the rows.
accumulate_row(balances, split, expense) ==
    LET found == balance_index(balances, split.user_id)
        withEntry == IF found = 0
                     THEN Append(balances, [user_id |-> split.user_id,
                                            total_paid |-> 0, total_owed |-> 0,
                                            net_balance |-> 0])
                     ELSE balances
        at == IF found = 0 THEN Len(withEntry) ELSE found
    IN  [withEntry EXCEPT
            ![at].total_paid = @ + paid_increment(split, expense),
            ![at].total_owed = @ + split.amount]

RECURSIVE accumulate(_, _)
accumulate(balances, rows) ==
    IF rows = << >> THEN balances
    ELSE LET split == splits[Head(rows)]
         IN  accumulate(accumulate_row(balances, split, expenses[split.expense_id]),
                        Tail(rows))

\* The balance with its sign reversed.
net_balance_reversed(entry) == entry.total_owed - entry.total_paid

\* net_balance = total_paid - total_owed
net_balance(entry) == entry.total_paid - entry.total_owed

\* The list get_group_balances returns.
group_balances(group_id) ==
    LET balances == accumulate(empty_balances, group_split_rows(group_id))
    IN  [i \in 1..Len(balances) |->
            [balances[i] EXCEPT !.net_balance = net_balance(balances[i])]]

\* A balance query that settles the splits it reads.
get_group_balances_settling(group_id) ==
    /\ call' = [op |-> "get_group_balances", ok |-> TRUE, group_id |-> group_id,
                result |-> group_balances(group_id)]
    /\ splits' = [i \in 1..Len(splits) |-> [splits[i] EXCEPT !.paid = TRUE]]
    /\ UNCHANGED <<users, accounts, session, groups, expenses, budgets, alerts,
                   email_configured>>

get_group_balances(group_id) ==
    /\ call' = [op |-> "get_group_balances", ok |-> TRUE, group_id |-> group_id,
                result |-> group_balances(group_id)]
    /\ UNCHANGED <<users, accounts, session, groups, expenses, splits,
                   budgets, alerts, email_configured>>

(***************************************************************************)
(* The ledger of groups and shared expenses.                              *)
(***************************************************************************)
Amounts == {a * Unit : a \in 0..MaxAmount}
\* The custom mappings tried: one unit for each of the first k users, or for
\* the id without a user row; the empty mapping stands for None and {}.
CustomDomains == {1..k : k \in 0..NumUsers} \cup {{GhostUser}}
CustomMappings == {[u \in D |-> Unit] : D \in CustomDomains}
GroupIds == 1..(MaxGroups + 1)

Next ==
    \/ \E member_ids \in SUBSET AllIds : create_group(CurrentUser, member_ids)
    \/ \E user_id \in AllIds, group_id \in GroupIds,
          category_id \in {Food, NoSuchCategory}, amount \in Amounts :
          \/ add_shared_expense(user_id, group_id, category_id, amount, TRUE, << >>)
          \/ \E custom_splits \in CustomMappings :
                add_shared_expense(user_id, group_id, category_id, amount,
                                   FALSE, custom_splits)
    \/ \E group_id \in GroupIds : get_group_balances(group_id)

Spec == Init /\ [][Next]_vars

(***************************************************************************)
(* Budgets, alerts and personal expenses.                                  *)
(***************************************************************************)

\* The budgets of the user for the category, of whatever month.
budget_rows_any_period(user_id, category_id, period) ==
    {b \in budgets : /\ b.user_id = user_id
                     /\ b.category_id = category_id}

\* The Budget rows of a key; the unique constraint leaves at most one.
budget_rows(user_id, category_id, period) ==
    {b \in budgets : /\ b.user_id = user_id
                     /\ b.category_id = category_id
                     /\ b.period = period}

\* Why set_budget returns None, or "" when it succeeds: the category is
\* looked up first, the CHECK constraint amount > 0 fails at commit.
set_budget_error_zero_accepted(category_id, amount) ==
    IF category_id \notin CategoryIds THEN "CategoryNotFound"
    ELSE IF ~(amount >= 0) THEN "IntegrityError"
    ELSE ""

set_budget_error(category_id, amount) ==
    IF category_id \notin CategoryIds THEN "CategoryNotFound"
    ELSE IF ~(amount > 0) THEN "IntegrityError"
    ELSE ""

\* The Budget table after set_budget: the amount of the existing row of the
\* key is overwritten, or the row is inserted when the key has none.
insert_budget(existing, row) == budgets \cup {row}

upsert_budget(existing, row) == (budgets \ existing) \cup {row}

set_budget(user_id, category_id, amount, period) ==
    LET error == set_budget_error(category_id, amount)
        existing == budget_rows(user_id, category_id, period)
        row == [user_id |-> user_id, category_id |-> category_id,
                period |-> period, amount |-> amount]
    IN  /\ IF error # ""
           THEN /\ budgets' = budgets
                /\ call' = [op |-> "set_budget", ok |-> FALSE, error |-> error]
           ELSE /\ budgets' = upsert_budget(existing, row)
                /\ call' = [op |-> "set_budget", ok |-> TRUE, error |-> "",
                            message |-> IF existing # {} THEN "updated" ELSE "set"]
        /\ UNCHANGED <<users, accounts, session, groups, expenses, splits,
                       alerts, email_configured>>

\* The first Alert row of the user for the category (Null: the general one),
\* 0 when there is none.
existing_alert(user_id, category_id) ==
    LET found == {i \in 1..Len(alerts) : /\ alerts[i].user_id = user_id
                                         /\ alerts[i].category_id = category_id}
    IN  IF found = {} THEN 0 ELSE CHOOSE i \in found : \A j \in found : i <= j

\* Why set_custom_alert returns None, or "" when it succeeds.
set_custom_alert_error(category_id, threshold_percentage) ==
    IF category_id # Null /\ category_id \notin CategoryIds THEN "CategoryNotFound"
    ELSE IF ~(threshold_percentage >= 0 /\ threshold_percentage <= 100)
         THEN "IntegrityError"
    ELSE ""

set_custom_alert(user_id, category_id, threshold_percentage, email_notification) ==
    LET error == set_custom_alert_error(category_id, threshold_percentage)
        existing == existing_alert(user_id, category_id)
        row == [user_id |-> user_id, category_id |-> category_id,
                threshold_percentage |-> threshold_percentage,
                is_active |-> TRUE, email_notification |-> email_notification]
    IN  /\ existing = 0 => Len(alerts) < MaxAlerts
        /\ IF error # ""
           THEN /\ alerts' = alerts
                /\ call' = [op |-> "set_custom_alert", ok |-> FALSE, error |-> error]
           ELSE /\ alerts' = IF existing = 0 THEN Append(alerts, row)
                             ELSE [alerts EXCEPT ![existing] = row]
                /\ call' = [op |-> "set_custom_alert", ok |-> TRUE, error |-> ""]
        /\ UNCHANGED <<users, accounts, session, groups, expenses, splits,
                       budgets, email_configured>>

\* The Expense row of add_expense.
PersonalExpense(user_id, category_id, amount, period) ==
    [user_id |-> user_id, category_id |-> category_id, amount |-> amount,
     group_id |-> Null, is_shared |-> FALSE, period |-> period]

\* The same sum over the personal expenses only.
spent_total_personal(rows, user_id, category_id, period) ==
    LET matching == SelectSeq(rows, LAMBDA e : /\ e.user_id = user_id
                                               /\ e.category_id = category_id
                                               /\ e.period = period
                                               /\ ~e.is_shared)
    IN  SumSeq([i \in 1..Len(matching) |-> matching[i].amount])

\* spent: the sum of the amounts of the expenses of the user in the category
\* and the month, shared or not, over the rows of the session.
spent_total(rows, user_id, category_id, period) ==
    LET matching == SelectSeq(rows, LAMBDA e : /\ e.user_id = user_id
                                               /\ e.category_id = category_id
                                               /\ e.period = period)
    IN  SumSeq([i \in 1..Len(matching) |-> matching[i].amount])

\* The ids of the active alerts of the user for the category or for all
\* categories, in id order.
matching_alerts(user_id, category_id) ==
    SelectSeq([i \in 1..Len(alerts) |-> i],
              LAMBDA i : /\ alerts[i].user_id = user_id
                         /\ alerts[i].is_active
                         /\ alerts[i].category_id \in {category_id, Null})

\* percentage_left <= alert.threshold_percentage, where
\* percentage_left = ((budget.amount - spent) / budget.amount) * 100
threshold_reached(budget_amount, spent, threshold_percentage) ==
    (budget_amount - spent) * 100 <= threshold_percentage * budget_amount

\* The loop over the alerts of the threshold regime.  An alert that fires
\* prints its warning; its email needs user.email, which raises
\* AttributeError when the user row is missing and ends the loop.
RECURSIVE threshold_loop(_, _, _, _, _)
threshold_loop(ids, outcome, user_id, budget_amount, spent) ==
    IF ids = << >> THEN outcome
    ELSE LET alert == alerts[Head(ids)]
             fires == threshold_reached(budget_amount, spent,
                                        alert.threshold_percentage)
             sends == fires /\ alert.email_notification /\ email_configured
             fired == IF fires THEN Append(outcome.fired, Head(ids))
                      ELSE outcome.fired
         IN  IF sends /\ user_id \notin users
             THEN [outcome EXCEPT !.fired = fired, !.raised = TRUE]
             ELSE threshold_loop(Tail(ids),
                      [outcome EXCEPT !.fired = fired,
                                      !.emails = IF sends THEN Append(@, Head(ids))
                                                 ELSE @],
                      user_id, budget_amount, spent)

\* if spent > budget.amount: the exceeded regime, else the threshold regime.
budget_exceeded_at_limit(spent, budget_amount) == spent >= budget_amount

budget_exceeded(spent, budget_amount) == spent > budget_amount

\* The calls of send_budget_exceeded_alert of one evaluation: one when the
\* query for the alerts with email_notification returns any row.
exceeded_sends_per_alert(notified) == Len(notified)

exceeded_sends(notified) == IF notified # << >> THEN 1 ELSE 0

\* _check_budget_alerts over the rows of the session: which regime applied
\* (the exceeded warning is printed exactly in the exceeded regime), the
\* alerts whose threshold warning was printed, the emails sent, and whether
\* the evaluation raised.
check_budget_alerts(rows, user_id, category_id, period) ==
    LET found == budget_rows(user_id, category_id, period)
        none == [regime |-> "none", budget |-> 0, spent |-> 0, fired |-> << >>,
                 emails |-> << >>, exceeded_emails |-> 0, raised |-> FALSE]
    IN  IF found = {} THEN none
        ELSE LET budget == CHOOSE b \in found : TRUE
                 spent == spent_total(rows, user_id, category_id, period)
                 start == [none EXCEPT !.budget = budget.amount, !.spent = spent]
             IN  IF budget_exceeded(spent, budget.amount)
                 THEN LET notified == SelectSeq(matching_alerts(user_id, category_id),
                                         LAMBDA i : alerts[i].email_notification)
                          sends == notified # << >> /\ email_configured
                      IN  [start EXCEPT
                              !.regime = "exceeded",
                              !.raised = sends /\ user_id \notin users,
                              !.exceeded_emails =
                                  IF sends /\ user_id \in users
                                  THEN exceeded_sends(notified) ELSE 0]
                 ELSE threshold_loop(matching_alerts(user_id, category_id),
                                     [start EXCEPT !.regime = "threshold"],
                                     user_id, budget.amount, spent)

\* Why add_expense returns None before the evaluation, or "".
add_expense_error(category_id, amount) ==
    IF category_id \notin CategoryIds THEN "CategoryNotFound"
    ELSE IF ~(amount > 0) THEN "IntegrityError"
    ELSE ""

\* EmailService.send_email: False without SMTP settings or when the SMTP
\* exchange fails (the exception is caught there), True when the mail left.
send_email(smtp_up) == email_configured /\ smtp_up

\* add_expense; smtp_up tells whether the SMTP server accepts mail during
\* the call.
add_expense(user_id, category_id, amount, period, smtp_up) ==
    LET error == add_expense_error(category_id, amount)
        rows == Append(expenses, PersonalExpense(user_id, category_id, amount, period))
        evaluation == check_budget_alerts(rows, user_id, category_id, period)
        args == [user_id |-> user_id, category_id |-> category_id,
                 amount |-> amount, period |-> period]
        attempts == Len(evaluation.emails) + evaluation.exceeded_emails
    IN  /\ Len(expenses) < MaxExpenses
        /\ IF error # ""
           THEN /\ expenses' = expenses
                /\ call' = [op |-> "add_expense", ok |-> FALSE, error |-> error]
           ELSE /\ expenses' = IF evaluation.raised THEN expenses ELSE rows
                /\ call' = [op |-> "add_expense", ok |-> ~evaluation.raised,
                            error |-> IF evaluation.raised THEN "AttributeError"
                                      ELSE "",
                            args |-> args, evaluation |-> evaluation,
                            undelivered |-> IF send_email(smtp_up) THEN 0
                                            ELSE attempts]
        /\ UNCHANGED <<users, accounts, session, groups, splits, budgets,
                       alerts, email_configured>>

(***************************************************************************)
(* The ledger of budgets, alerts and personal expenses.                   *)
(***************************************************************************)
Transport == Food + 1
NextPeriod == <<12, 2026>>

\* The ids the calls are made for: the logged-in user and the id without a
\* user row.  The other users keep the default alert of their registration.
Actors == {CurrentUser, GhostUser}
Thresholds == {50, 101}

InitBudget == \E configured \in BOOLEAN : Registered(configured)

NextBudget ==
    \/ \E user_id \in Actors, category_id \in {Food, NoSuchCategory},
          amount \in Amounts :
          set_budget(user_id, category_id, amount, CurrentPeriod)
    \/ \E user_id \in Actors, category_id \in {Null, Food, Transport, NoSuchCategory},
          threshold_percentage \in Thresholds :
          set_custom_alert(user_id, category_id, threshold_percentage, TRUE)
    \/ \E user_id \in Actors, category_id \in {Food, NoSuchCategory},
          amount \in {0, Unit}, period \in {CurrentPeriod, NextPeriod},
          smtp_up \in BOOLEAN :
          add_expense(user_id, category_id, amount, period, smtp_up)

SpecBudget == InitBudget /\ [][NextBudget]_vars

(***************************************************************************)
(* Registration.                                                           *)
(***************************************************************************)
MaxUsers == NumUsers + 1

\* Usernames and emails, as many as there can be users.
Names == 1..MaxUsers

\* The unique constraints of User.username and User.email: the flush of the
\* new user row raises IntegrityError when either value is taken.
username_taken(username, email) ==
    \E u \in users : accounts[u].username = username

unique_violation(username, email) ==
    \E u \in users : accounts[u].username = username \/ accounts[u].email = email

\* user.id of a new row: the rowid after the highest one; no row is deleted.
next_user_id == Cardinality(users) + 1

create_user(username, email) ==
    LET user_id == next_user_id
    IN  /\ IF unique_violation(username, email)
           THEN /\ call' = [op |-> "create_user", ok |-> FALSE,
                            error |-> "IntegrityError",
                            username |-> username, email |-> email]
                /\ UNCHANGED <<users, accounts, alerts>>
           ELSE /\ Cardinality(users) < MaxUsers
                /\ Len(alerts) < MaxAlerts
                /\ users' = users \cup {user_id}
                /\ accounts' = [u \in users \cup {user_id} |->
                                   IF u = user_id THEN account(username, email)
                                   ELSE accounts[u]]
                /\ alerts' = Append(alerts, default_alert(user_id, email_configured))
                /\ call' = [op |-> "create_user", ok |-> TRUE, error |-> "",
                            username |-> username, email |-> email]
        /\ UNCHANGED <<session, groups, expenses, splits, budgets,
                       email_configured>>

\* The store init_db creates: the tables are empty, no user has registered.
Installed(configured) ==
    /\ users = {}
    /\ accounts = << >>
    /\ groups = << >>
    /\ expenses = << >>
    /\ splits = << >>
    /\ budgets = {}
    /\ alerts = << >>
    /\ email_configured = configured
    /\ call = NoCall
    /\ session = NoSession

InitUsers == \E configured \in BOOLEAN : Installed(configured)

NextUsers ==
    \/ \E username \in Names, email \in Names : create_user(username, email)
    \/ \E user_id \in UserIds, category_id \in {Null, Food} :
          set_custom_alert(user_id, category_id, DEFAULT_ALERT_THRESHOLD, TRUE)

SpecUsers == InitUsers /\ [][NextUsers]_vars

(***************************************************************************)
(* The unit of work of get_session, step by step.  A unit is the with-body *)
(* of set_budget, set_custom_alert or add_expense; session.pc is the       *)
(* position in get_session: "body" (after the yield), "commit", "except",  *)
(* "finally", and "idle" when no unit is under way.                        *)
(***************************************************************************)

\* session = Session(); yield session
begin_session(unit) ==
    /\ session.pc = "idle"
    /\ unit.op = "add_expense" => Len(expenses) < MaxExpenses
    /\ (unit.op = "set_custom_alert" /\ existing_alert(unit.user_id, Null) = 0)
          => Len(alerts) < MaxAlerts
    /\ session' = [NoSession EXCEPT !.pc = "body", !.unit = unit, !.is_open = TRUE]
    /\ UNCHANGED <<users, accounts, groups, expenses, splits, budgets, alerts,
                   email_configured, call>>

\* The exception the with-body raises, "" when it runs to its end.  Only
\* add_expense flushes and evaluates the budget in its body.
body_error(unit) ==
    IF unit.op # "add_expense" THEN ""
    ELSE IF ~(unit.amount > 0) THEN "IntegrityError"
    ELSE LET rows == Append(expenses, PersonalExpense(unit.user_id, Food,
                                                      unit.amount, CurrentPeriod))
         IN  IF check_budget_alerts(rows, unit.user_id, Food, CurrentPeriod).raised
             THEN "AttributeError"
             ELSE ""

\* The exception session.commit() raises, "" when it succeeds: set_budget
\* and set_custom_alert do not flush, their CHECK constraint fails here.
commit_error(unit) ==
    IF unit.op = "set_budget" /\ ~(unit.amount > 0) THEN "IntegrityError"
    ELSE IF unit.op = "set_custom_alert"
            /\ ~(unit.threshold >= 0 /\ unit.threshold <= 100)
         THEN "IntegrityError"
    ELSE ""

\* An exception of the body or of the commit reaches 'except Exception'.
swallow_exception(s, where) == [s EXCEPT !.pc = "finally", !.raised_in = where]

on_exception(s, where) == [s EXCEPT !.pc = "except", !.raised_in = where]

\* The with-body runs: to its end, and get_session goes on after the yield,
\* or to an exception, which is thrown into get_session at the yield.
run_body ==
    /\ session.pc = "body"
    /\ session' = IF body_error(session.unit) # ""
                  THEN on_exception(session, "body")
                  ELSE [session EXCEPT !.pc = "commit"]
    /\ UNCHANGED <<users, accounts, groups, expenses, splits, budgets, alerts,
                   email_configured, call>>

\* The tables once the rows of the unit are committed.
committed_budgets(unit) ==
    IF unit.op # "set_budget" THEN budgets
    ELSE upsert_budget(budget_rows(unit.user_id, Food, CurrentPeriod),
                       [user_id |-> unit.user_id, category_id |-> Food,
                        period |-> CurrentPeriod, amount |-> unit.amount])

committed_alerts(unit) ==
    IF unit.op # "set_custom_alert" THEN alerts
    ELSE LET existing == existing_alert(unit.user_id, Null)
             row == [user_id |-> unit.user_id, category_id |-> Null,
                     threshold_percentage |-> unit.threshold,
                     is_active |-> TRUE, email_notification |-> TRUE]
         IN  IF existing = 0 THEN Append(alerts, row)
             ELSE [alerts EXCEPT ![existing] = row]

committed_expenses(unit) ==
    IF unit.op # "add_expense" THEN expenses
    ELSE Append(expenses, PersonalExpense(unit.user_id, Food, unit.amount,
                                          CurrentPeriod))

\* session.commit()
session_commit ==
    /\ session.pc = "commit"
    /\ IF commit_error(session.unit) # ""
       THEN /\ session' = on_exception(session, "commit")
            /\ UNCHANGED <<budgets, alerts, expenses>>
       ELSE /\ session' = [session EXCEPT !.pc = "finally", !.committed = TRUE]
            /\ budgets' = committed_budgets(session.unit)
            /\ alerts' = committed_alerts(session.unit)
            /\ expenses' = committed_expenses(session.unit)
    /\ UNCHANGED <<users, accounts, groups, splits, email_configured, call>>

\* except Exception as e: session.rollback(); raise e
session_rollback ==
    /\ session.pc = "except"
    /\ session' = [session EXCEPT !.pc = "finally", !.rolled_back = TRUE,
                                  !.reraised = TRUE]
    /\ UNCHANGED <<users, accounts, groups, expenses, splits, budgets, alerts,
                   email_configured, call>>

\* finally: session.close().  The service method then returns its row, or
\* None from its own 'except Exception' when get_session re-raised.
session_close ==
    /\ session.pc = "finally"
    /\ session' = [session EXCEPT !.pc = "idle", !.is_open = FALSE]
    /\ call' = [op |-> session.unit.op, ok |-> ~session.reraised]
    /\ UNCHANGED <<users, accounts, groups, expenses, splits, budgets, alerts,
                   email_configured>>

\* The steps get_session takes by itself once a unit of work has begun.
session_step == run_body \/ session_commit \/ session_rollback \/ session_close

InitSession == InitBudget

NextSession ==
    \/ \E user_id \in Actors, amount \in {0, Unit} :
          begin_session([op |-> "set_budget", user_id |-> user_id,
                         amount |-> amount])
    \/ \E user_id \in Actors, threshold \in Thresholds :
          begin_session([op |-> "set_custom_alert", user_id |-> user_id,
                         threshold |-> threshold])
    \/ \E user_id \in Actors, amount \in {0, Unit} :
          begin_session([op |-> "add_expense", user_id |-> user_id,
                         amount |-> amount])
    \/ run_body
    \/ session_commit
    \/ session_rollback
    \/ session_close

SpecSession == InitSession /\ [][NextSession]_vars

\* The interpreter runs a unit of work that has begun to its end: nothing
\* in get_session waits for another thread or process.
FairSpecSession == SpecSession /\ WF_vars(session_step)

(***************************************************************************)
(* The whole ledger: the shared expenses of one group beside the budgets,  *)
(* the alerts and the personal expenses of the same users.                 *)
(***************************************************************************)
LedgerAmounts == {Unit, 2 * Unit}

NextLedger ==
    \/ create_group(CurrentUser, UserIds)
    \/ \E split_equally \in BOOLEAN :
          add_shared_expense(CurrentUser, 1, Food, Unit, split_equally, << >>)
    \/ get_group_balances(1)
    \/ \E user_id \in Actors, amount \in LedgerAmounts :
          set_budget(user_id, Food, amount, CurrentPeriod)
    \/ \E user_id \in Actors :
          set_custom_alert(user_id, Null, 50, TRUE)
    \/ \E user_id \in Actors, amount \in LedgerAmounts, smtp_up \in BOOLEAN :
          add_expense(user_id, Food, amount, CurrentPeriod, smtp_up)

SpecLedger == InitBudget /\ [][NextLedger]_vars

(***************************************************************************)
(* Properties of the group ledger.                                         *)
(***************************************************************************)
RECURSIVE SumOver(_, _)
SumOver(f, S) ==
    IF S = {} THEN 0
    ELSE LET x == CHOOSE y \in S : TRUE IN f[x] + SumOver(f, S \ {x})

SplitIds == 1..Len(splits)
ExpenseIds == 1..Len(expenses)
SharedExpenseIds == {e \in ExpenseIds : expenses[e].is_shared}
SplitsOf(e) == {i \in SplitIds : splits[i].expense_id = e}
SplitAmount == [i \in SplitIds |-> splits[i].amount]
SplitExpenseAmount == [i \in SplitIds |-> expenses[splits[i].expense_id].amount]
MembersOf(e) == groups[expenses[e].group_id].members

\* The splits of a user that the balances of a group are computed from.
UserSplitsIn(u, g) ==
    {i \in SplitIds : /\ splits[i].user_id = u
                      /\ expenses[splits[i].expense_id].group_id = g}

\* The last call was an add_shared_expense in equal mode that succeeded.
EqualCall == call.op = "add_shared_expense" /\ call.ok /\ call.split_equally

\* C1: after any sequence of add_shared_expense calls on a group, the
\* net_balance values get_group_balances returns for it sum to zero.
C1_NetBalancesSumToZero ==
    \A g \in 1..Len(groups) :
        LET balances == group_balances(g)
        IN  SumSeq([i \in 1..Len(balances) |-> balances[i].net_balance]) = 0

\* C2: for every persisted shared expense, the amounts of its splits sum to
\* the amount of the expense.
C2_SplitsSumToExpense ==
    \A e \in SharedExpenseIds : SumOver(SplitAmount, SplitsOf(e)) = expenses[e].amount

\* C3: every persisted shared expense has exactly one split flagged paid, and
\* that split is the payer's.
C3_OnePaidSplitOfPayer ==
    \A e \in SharedExpenseIds :
        /\ Cardinality({i \in SplitsOf(e) : splits[i].paid}) = 1
        /\ \A i \in SplitsOf(e) : splits[i].paid => splits[i].user_id = expenses[e].user_id

\* C4: a successful equal-mode add_shared_expense of amount A on a group of
\* N >= 1 members creates splits of A/N each, which sum to A.
C4_EqualSplitsSumToAmount ==
    EqualCall =>
        LET N == Cardinality(groups[call.group_id].members)
        IN  /\ N >= 1
            /\ SumOver(SplitAmount, SplitsOf(call.expense_id)) = call.amount
            /\ \A i \in SplitsOf(call.expense_id) : splits[i].amount * N = call.amount

C4_Witness ==
    /\ EqualCall
    /\ Cardinality(groups[call.group_id].members) >= 2
    /\ Cardinality(SplitsOf(call.expense_id)) >= 2

\* C5: in equal mode add_shared_expense creates one split per member of the
\* group, all of the same amount; the payer's is flagged paid, the others not.
C5_EqualModeOneSplitPerMember ==
    EqualCall =>
        LET created == SplitsOf(call.expense_id)
            members == groups[call.group_id].members
        IN  /\ {splits[i].user_id : i \in created} = members
            /\ Cardinality(created) = Cardinality(members)
            /\ \A i, j \in created : splits[i].amount = splits[j].amount
            /\ \A i \in created : splits[i].paid <=> (splits[i].user_id = call.user_id)

C5_Witness ==
    /\ EqualCall
    /\ call.user_id \in groups[call.group_id].members
    /\ \E i \in SplitsOf(call.expense_id) : ~splits[i].paid

\* C6: each shared expense has exactly one split per member of its group, and
\* no two splits share the same (expense_id, user_id).
C6_OneSplitPerMember ==
    \A e \in SharedExpenseIds :
        /\ \A m \in MembersOf(e) :
              Cardinality({i \in SplitsOf(e) : splits[i].user_id = m}) = 1
        /\ \A i, j \in SplitsOf(e) : splits[i].user_id = splits[j].user_id => i = j

\* C7: get_group_balances(g) returns one entry per user with a split on an
\* expense of g; total_paid is the sum of expense.amount over the user's paid
\* splits, total_owed the sum of split.amount over all the user's splits, and
\* net_balance their difference.
C7_BalancesPerUser ==
    call.op = "get_group_balances" =>
        LET g == call.group_id
            result == call.result
            withSplits == {u \in users : UserSplitsIn(u, g) # {}}
        IN  /\ Len(result) = Cardinality(withSplits)
            /\ {result[i].user_id : i \in 1..Len(result)} = withSplits
            /\ \A i \in 1..Len(result) :
                  LET mine == UserSplitsIn(result[i].user_id, g)
                  IN  /\ result[i].total_paid =
                            SumOver(SplitExpenseAmount, {k \in mine : splits[k].paid})
                      /\ result[i].total_owed = SumOver(SplitAmount, mine)
                      /\ result[i].net_balance =
                            result[i].total_paid - result[i].total_owed

C7_Witness ==
    /\ call.op = "get_group_balances"
    /\ Len(call.result) >= 2
    /\ \E i \in 1..Len(call.result) :
          /\ call.result[i].total_paid > 0
          /\ Cardinality(UserSplitsIn(call.result[i].user_id, call.group_id)) >= 2

\* C8: after a single equal-mode shared expense of amount A paid by a member
\* of a group of N members, the payer's net_balance is A - A/N and every
\* other member's is -A/N.
C8_SingleEqualExpenseBalances ==
    (/\ EqualCall
     /\ call.user_id \in groups[call.group_id].members
     /\ {e \in ExpenseIds : expenses[e].group_id = call.group_id} = {call.expense_id})
    =>
        LET members == groups[call.group_id].members
            N == Cardinality(members)
            balances == group_balances(call.group_id)
        IN  /\ {balances[i].user_id : i \in 1..Len(balances)} = members
            /\ \A i \in 1..Len(balances) :
                  IF balances[i].user_id = call.user_id
                  THEN /\ balances[i].net_balance * N = call.amount * N - call.amount
                       /\ (N > 1 => balances[i].net_balance > 0)
                  ELSE /\ balances[i].net_balance * N = - call.amount
                       /\ balances[i].net_balance < 0

C8_Witness ==
    /\ EqualCall
    /\ call.user_id \in groups[call.group_id].members
    /\ {e \in ExpenseIds : expenses[e].group_id = call.group_id} = {call.expense_id}
    /\ Cardinality(groups[call.group_id].members) >= 2

\* C9: two calls of get_group_balances on the same group with no change of
\* the ledger in between return the same result.
C9_BalancesIdempotent ==
    [][(/\ call.op = "get_group_balances"
        /\ call'.op = "get_group_balances"
        /\ call'.group_id = call.group_id)
       => call'.result = call.result]_vars

C9_Witness ==
    /\ call.op = "get_group_balances"
    /\ Len(call.result) >= 2
    /\ \E i \in 1..Len(call.result) : call.result[i].net_balance # 0

(***************************************************************************)
(* Properties of the budget alerts.                                        *)
(***************************************************************************)

\* The last call was an add_expense that reached the budget evaluation.
EvaluatedCall ==
    /\ call.op = "add_expense"
    /\ call.error \notin {"CategoryNotFound", "IntegrityError"}
    /\ call.evaluation.regime # "none"

\* The amount of the budget the last add_expense was evaluated against.
EvaluatedBudget ==
    LET row == CHOOSE b \in budget_rows(call.args.user_id, call.args.category_id,
                                        call.args.period) : TRUE
    IN  row.amount

\* What the user had spent under that budget, the new expense included (it is
\* no longer among the rows when the call was rolled back).
EvaluatedSpent ==
    LET mine == {e \in ExpenseIds : /\ expenses[e].user_id = call.args.user_id
                                    /\ expenses[e].category_id = call.args.category_id
                                    /\ expenses[e].period = call.args.period}
        ExpenseAmount == [e \in ExpenseIds |-> expenses[e].amount]
    IN  SumOver(ExpenseAmount, mine) + (IF call.ok THEN 0 ELSE call.args.amount)

\* The alert rows the claim says fire: of the user, active, for the category
\* or for all categories, with percentage_left <= threshold_percentage.
ShouldFire(i) ==
    /\ alerts[i].user_id = call.args.user_id
    /\ alerts[i].is_active
    /\ alerts[i].category_id \in {call.args.category_id, Null}
    /\ (EvaluatedBudget - EvaluatedSpent) * 100
          <= alerts[i].threshold_percentage * EvaluatedBudget

\* C10: when add_expense evaluates a budget with spent <= budget.amount, a
\* threshold alert fires for an alert row if and only if the row is the
\* user's, is active, is for the expense's category or for all categories,
\* and percentage_left <= threshold_percentage (equality fires).
C10_ThresholdAlertFiresIff ==
    (EvaluatedCall /\ EvaluatedSpent <= EvaluatedBudget) =>
        /\ call.evaluation.regime = "threshold"
        /\ call.evaluation.budget = EvaluatedBudget
        /\ call.evaluation.spent = EvaluatedSpent
        /\ \A i \in 1..Len(alerts) :
              (\E k \in 1..Len(call.evaluation.fired) : call.evaluation.fired[k] = i)
                  <=> ShouldFire(i)

\* C11: each budget evaluation is in exactly one regime.  When spent >
\* budget.amount only the exceeded warning and notification are produced and
\* no threshold alert fires, whatever the thresholds; when spent <=
\* budget.amount no exceeded warning or notification is produced.
C11_OneRegimePerEvaluation ==
    EvaluatedCall =>
        IF EvaluatedSpent > EvaluatedBudget
        THEN /\ call.evaluation.regime = "exceeded"
             /\ call.evaluation.fired = << >>
             /\ call.evaluation.emails = << >>
        ELSE /\ call.evaluation.regime = "threshold"
             /\ call.evaluation.exceeded_emails = 0

C11_Witness ==
    /\ EvaluatedCall
    /\ call.evaluation.regime = "exceeded"
    /\ call.evaluation.exceeded_emails = 1
    /\ \E i \in 1..Len(alerts) : ShouldFire(i)

\* Two Budget rows of the same (user, category, month, year).
SameBudgetKey(a, b) ==
    /\ a.user_id = b.user_id
    /\ a.category_id = b.category_id
    /\ a.period = b.period

\* C12: after any sequence of set_budget calls there is at most one Budget
\* row per (user, category, month, year); a set_budget for an existing key
\* changes only the amount of that row and creates no new row.
C12_OneBudgetPerKey ==
    [][/\ \A a, b \in budgets' : SameBudgetKey(a, b) => a = b
       /\ call'.op = "set_budget" =>
             /\ Cardinality(budgets' \ budgets) <= 1
             /\ \A row \in budgets' \ budgets :
                   /\ budgets' = {b \in budgets : ~SameBudgetKey(b, row)} \cup {row}
                   /\ (\E b \in budgets : SameBudgetKey(b, row))
                         => Cardinality(budgets') = Cardinality(budgets)]_vars

C12_Witness ==
    /\ call.op = "set_budget"
    /\ call.ok
    /\ call.message = "updated"
    /\ Cardinality(budgets) >= 2

(***************************************************************************)
(* Properties of registration and of the alert settings.                   *)
(***************************************************************************)

\* C13: after any sequence of create_user and set_custom_alert calls, each
\* user has at most one general alert (category_id null) and at most one
\* alert per category.
C13_OneAlertPerUserAndCategory ==
    \A u \in users :
        \A i, j \in 1..Len(alerts) :
            (/\ alerts[i].user_id = u
             /\ alerts[j].user_id = u
             /\ alerts[i].category_id = alerts[j].category_id) => i = j

\* The username or the email is the one of a user row.
AlreadyRegistered(username, email) ==
    \E u \in users : accounts[u].username = username \/ accounts[u].email = email

\* C17: create_user with a username or an email that already exists returns
\* None and leaves the ledger unchanged: neither a new User row nor its
\* default Alert row survives.
C17_DuplicateUserRejected ==
    [][(call'.op = "create_user" /\ AlreadyRegistered(call'.username, call'.email))
       => /\ ~call'.ok
          /\ UNCHANGED <<users, accounts, groups, expenses, splits, budgets,
                         alerts>>]_vars

C17_Witness ==
    /\ call.op = "create_user"
    /\ ~call.ok
    /\ \E u \in users : accounts[u].email = call.email
    /\ \A u \in users : accounts[u].username # call.username
    /\ Len(alerts) = Cardinality(users)

(***************************************************************************)
(* Properties of the failure handling.                                     *)
(***************************************************************************)

\* C14: every add_shared_expense either persists the expense together with
\* all of its splits or persists nothing: no reachable ledger contains a
\* shared expense without its splits, or a split without its expense.
C14_ExpenseWithItsSplits ==
    /\ \A e \in SharedExpenseIds : SplitsOf(e) # {}
    /\ \A i \in SplitIds : splits[i].expense_id \in SharedExpenseIds

\* C15: add_shared_expense on a group with zero members, or with an amount
\* <= 0, fails (returns None) and leaves the ledger unchanged: neither the
\* expense nor any split is persisted.
C15_InvalidAllocationFails ==
    [][call'.op = "add_shared_expense" =>
          /\ call'.ok => /\ groups[call'.group_id].members # {}
                         /\ call'.amount > 0
          /\ ~call'.ok => UNCHANGED <<users, accounts, groups, expenses, splits,
                                      budgets, alerts>>]_vars

\* C16: an operation that references a category, a group or a user that
\* does not exist returns nothing, does not raise to the caller and leaves
\* the ledger unchanged; so no row of the ledger refers to a category, a
\* group or a user that has no row.
C16_LookupsFailClosed ==
    /\ \A e \in ExpenseIds :
          /\ expenses[e].user_id \in users
          /\ expenses[e].category_id \in CategoryIds
          /\ expenses[e].group_id \in {Null} \cup (1..Len(groups))
    /\ \A b \in budgets : b.user_id \in users /\ b.category_id \in CategoryIds
    /\ \A i \in 1..Len(alerts) :
          /\ alerts[i].user_id \in users
          /\ alerts[i].category_id \in {Null} \cup CategoryIds
    /\ \A g \in 1..Len(groups) :
          /\ groups[g].created_by \in users
          /\ groups[g].members \subseteq users
    /\ \A i \in SplitIds : splits[i].user_id \in users

\* C18: a failure while sending a budget notification during add_expense
\* never rolls back the expense: whenever the expense insert itself
\* succeeds, the expense is committed whether or not the notification
\* succeeds.
C18_NotificationNeverRollsBack ==
    (/\ call.op = "add_expense"
     /\ call.error \notin {"CategoryNotFound", "IntegrityError"})
    => /\ call.ok
       /\ expenses # << >>
       /\ expenses[Len(expenses)] =
             PersonalExpense(call.args.user_id, call.args.category_id,
                             call.args.amount, call.args.period)

(***************************************************************************)
(* Properties of the exceeded notification.                                *)
(***************************************************************************)

\* The alert rows that are candidates for the exceeded notification of the
\* last add_expense: of the user, active, with email_notification, for the
\* category or for all categories.
ExceededCandidates ==
    {i \in 1..Len(alerts) : /\ alerts[i].user_id = call.args.user_id
                            /\ alerts[i].is_active
                            /\ alerts[i].email_notification
                            /\ alerts[i].category_id \in {call.args.category_id, Null}}

\* The last call was an add_expense that returned its expense after an
\* evaluation in the exceeded regime.
ExceededCall ==
    /\ EvaluatedCall
    /\ call.ok
    /\ EvaluatedSpent > EvaluatedBudget

SessionUnderWay == session.pc \in {"body", "commit", "except", "finally"}

\* commit or rollback has been decided: the unit is closing or has ended.
SessionDecided ==
    \/ session.pc = "finally"
    \/ session.pc = "idle" /\ session.unit.op # "none"

\* Exactly one of commit and rollback; commit when neither the body nor the
\* commit raised, rollback with the exception re-raised otherwise; the
\* session is open exactly while its unit of work is under way.
SessionOutcome ==
    /\ session.is_open <=> SessionUnderWay
    /\ SessionDecided =>
          /\ session.committed # session.rolled_back
          /\ session.committed <=> session.raised_in = ""
          /\ session.rolled_back <=> session.reraised

\* Rows become durable by the commit of a unit that raised nothing, and in
\* no other step.
DurableOnlyByCommit ==
    (<<expenses, budgets, alerts>>' # <<expenses, budgets, alerts>>)
        => /\ session.pc = "commit"
           /\ session'.committed
           /\ session'.raised_in = ""

\* C19: every get_session unit of work ends with exactly one of commit (the
\* body completed without exception) or rollback followed by re-raising
\* the exception (the body or the commit failed), and the session is
\* closed in both cases; no session stays open after its unit of work.
C19_UnitOfWorkEnds ==
    /\ []SessionOutcome
    /\ [][DurableOnlyByCommit]_vars
    /\ (session.is_open ~> ~session.is_open)

C19_Witness ==
    /\ session.pc = "idle"
    /\ ~session.is_open
    /\ session.raised_in = "commit"
    /\ session.rolled_back
    /\ session.reraised
    /\ ~call.ok

(***************************************************************************)
(* Properties of the threshold alerts.                                     *)
(***************************************************************************)

\* The ids of a sequence of alert ids.
IdsOf(ids) == {ids[k] : k \in 1..Len(ids)}

\* C21: in the threshold regime every matching active alert whose
\* threshold_percentage >= percentage_left fires independently (a general
\* alert and a category alert of the same user both fire), and an email is
\* sent for each fired alert whose email_notification is true (email being
\* configured).
C21_EveryMatchingAlertFires ==
    (EvaluatedCall /\ EvaluatedSpent <= EvaluatedBudget /\ email_configured) =>
        /\ IdsOf(call.evaluation.fired) = {i \in 1..Len(alerts) : ShouldFire(i)}
        /\ Len(call.evaluation.fired) = Cardinality(IdsOf(call.evaluation.fired))
        /\ IdsOf(call.evaluation.emails) =
              {i \in 1..Len(alerts) : ShouldFire(i) /\ alerts[i].email_notification}
        /\ Len(call.evaluation.emails) = Cardinality(IdsOf(call.evaluation.emails))

\* The threshold computation ran only when the evaluation neither found no
\* budget nor was in the exceeded regime.
ThresholdComputed == EvaluatedCall /\ call.evaluation.regime = "threshold"

\* C22: the budget evaluation never divides by zero.  No Budget row has the
\* amount zero, and in every state in which percentage_left =
\* (budget.amount - spent) / budget.amount * 100 was computed the divisor
\* budget.amount is not zero.
C22_NoDivisionByZero ==
    /\ \A b \in budgets : b.amount # 0
    /\ ThresholdComputed => /\ call.evaluation.budget # 0
                            /\ EvaluatedBudget # 0

C22_Witness ==
    /\ ThresholdComputed
    /\ call.ok
    /\ call.evaluation.spent = call.evaluation.budget
    /\ call.evaluation.fired # << >>

(***************************************************************************)
(* Properties of the custom mode and of the frame of the operations.       *)
(***************************************************************************)

\* The last call was an add_shared_expense in custom mode that succeeded.
CustomCall == call.op = "add_shared_expense" /\ call.ok /\ ~call.split_equally

\* C23: in custom mode add_shared_expense persists exactly one split per
\* entry of the supplied mapping, with the supplied amount, flagged paid
\* iff the entry's user is the payer; neither the sum of the amounts nor
\* the membership of the users is checked.
C23_CustomSplitsAsSupplied ==
    CustomCall =>
        LET created == SplitsOf(call.expense_id)
            mapping == call.custom_splits
        IN  /\ {splits[i].user_id : i \in created} = DOMAIN mapping
            /\ Cardinality(created) = Cardinality(DOMAIN mapping)
            /\ \A i \in created :
                  /\ splits[i].amount = mapping[splits[i].user_id]
                  /\ splits[i].paid <=> (splits[i].user_id = call.user_id)

\* A mapping that sums to less than the expense and names the payer and a
\* user outside the group was accepted and persisted.
C23_Witness ==
    /\ CustomCall
    /\ SumOver(SplitAmount, SplitsOf(call.expense_id)) < call.amount
    /\ \E i \in SplitsOf(call.expense_id) : splits[i].paid
    /\ \E i \in SplitsOf(call.expense_id) :
          splits[i].user_id \notin groups[call.group_id].members

\* The expense table is what it was, or what it was with the row of the
\* add_expense call appended.
OnlyTheExpenseInserted ==
    \/ expenses' = expenses
    \/ expenses' = Append(expenses,
                          PersonalExpense(call'.args.user_id, call'.args.category_id,
                                          call'.args.amount, call'.args.period))

\* C24: get_group_balances and the budget-alert evaluation perform no
\* writes: the users, expenses, splits, budgets, groups and alerts are the
\* same before and after them (the categories never change); an add_expense
\* step changes nothing but the expense it inserts before the evaluation.
C24_QueriesWriteNothing ==
    [][/\ call'.op = "get_group_balances" =>
             UNCHANGED <<users, accounts, groups, expenses, splits, budgets, alerts>>
       /\ (call'.op = "add_expense"
           /\ call'.error \notin {"CategoryNotFound", "IntegrityError"}) =>
             /\ UNCHANGED <<users, accounts, groups, splits, budgets, alerts>>
             /\ OnlyTheExpenseInserted]_vars

C24_Witness ==
    /\ call.op = "get_group_balances"
    /\ call.result # << >>
    /\ budgets # {}
    /\ \E e \in ExpenseIds : ~expenses[e].is_shared

\* C25: no service operation changes an already persisted expense, an
\* already persisted split, or the member set of an already created group:
\* once created they keep their field values through every later operation.
C25_RowsImmutable ==
    [][/\ Len(expenses') >= Len(expenses)
       /\ \A e \in 1..Len(expenses) : expenses'[e] = expenses[e]
       /\ Len(splits') >= Len(splits)
       /\ \A i \in 1..Len(splits) : splits'[i] = splits[i]
       /\ Len(groups') >= Len(groups)
       /\ \A g \in 1..Len(groups) : groups'[g].members = groups[g].members]_vars

C25_Witness ==
    /\ Len(groups) >= 2
    /\ Len(expenses) >= 2
    /\ splits # << >>
    /\ call.op = "set_budget"
    /\ call.ok

(***************************************************************************)
(* Further properties of the group balances.                               *)
(***************************************************************************)

\* The splits of the expenses of a group.
GroupSplits(g) == {i \in SplitIds : expenses[splits[i].expense_id].group_id = g}

\* C26: for any group, the sum of net_balance over the entries of
\* get_group_balances equals the sum of expense.amount over the group's
\* splits flagged paid minus the sum of split.amount over all the group's
\* splits.
C26_NetSumIsPaidMinusOwed ==
    \A g \in 1..Len(groups) :
        LET balances == group_balances(g)
        IN  SumSeq([i \in 1..Len(balances) |-> balances[i].net_balance]) =
                SumOver(SplitExpenseAmount, {i \in GroupSplits(g) : splits[i].paid})
                    - SumOver(SplitAmount, GroupSplits(g))

\* The last call was an add_shared_expense with split_equally False and no
\* mapping that succeeded.
NoMappingCall ==
    /\ call.op = "add_shared_expense"
    /\ call.ok
    /\ ~call.split_equally
    /\ call.custom_splits = << >>

\* C27: add_shared_expense with split_equally False and no custom mapping
\* succeeds (for an existing category and group and an amount > 0) and
\* commits a shared expense that has no split rows; the balances of the
\* group are the same as before the call.
C27_NoMappingNoSplits ==
    /\ [](\A g \in 1..Len(groups), amount \in Amounts \ {0} :
            shared_expense_error(g, Food, amount, FALSE, << >>) = "")
    /\ [][NoMappingCall' =>
             /\ expenses' = Append(expenses,
                     SharedExpense(call'.user_id, call'.group_id, Food, call'.amount))
             /\ call'.expense_id = Len(expenses')
             /\ splits' = splits
             /\ \A g \in 1..Len(groups) : group_balances(g)' = group_balances(g)]_vars

C27_Witness ==
    /\ NoMappingCall
    /\ Cardinality(groups[call.group_id].members) >= 2
    /\ SplitsOf(call.expense_id) = {}
    /\ group_balances(call.group_id) # << >>

(***************************************************************************)
(* Further properties of the budget evaluation.                            *)
(***************************************************************************)

\* C28: with the budget of a (user, category, month, year) left unchanged,
\* once an add_expense evaluation for that key is in the exceeded regime,
\* every later add_expense for the same key is also evaluated in the
\* exceeded regime and never fires a threshold alert; in particular the
\* add_expense that comes right after it.
C28_ExceededStaysExceeded ==
    [][(/\ EvaluatedCall
        /\ call.evaluation.regime = "exceeded"
        /\ call'.op = "add_expense"
        /\ call'.error \notin {"CategoryNotFound", "IntegrityError"}
        /\ call'.args.user_id = call.args.user_id
        /\ call'.args.category_id = call.args.category_id
        /\ call'.args.period = call.args.period
        /\ budgets' = budgets)
       => /\ call'.evaluation.regime = "exceeded"
          /\ call'.evaluation.fired = << >>]_vars

\* C29: add_shared_expense runs no budget-alert evaluation (its outcome
\* carries none), and yet in every later add_expense evaluation the spent
\* total is the sum over all the persisted expenses of the user, category,
\* month and year, the shared ones with their full amount included.
C29_SharedCountsUnevaluated ==
    /\ call.op = "add_shared_expense" => "evaluation" \notin DOMAIN call
    /\ EvaluatedCall => call.evaluation.spent = EvaluatedSpent

C29_Witness ==
    /\ EvaluatedCall
    /\ call.ok
    /\ call.evaluation.regime = "exceeded"
    /\ \E e \in SharedExpenseIds :
          /\ expenses[e].user_id = call.args.user_id
          /\ expenses[e].category_id = call.args.category_id
          /\ expenses[e].period = call.args.period
          /\ call.evaluation.spent - expenses[e].amount <= EvaluatedBudget

\* The last call is an add_expense that got as far as the evaluation while
\* no budget row exists for its user, category, month and year.
UnbudgetedCall ==
    /\ call.op = "add_expense"
    /\ call.error \notin {"CategoryNotFound", "IntegrityError"}
    /\ ~\E b \in budgets : /\ b.user_id = call.args.user_id
                           /\ b.category_id = call.args.category_id
                           /\ b.period = call.args.period

\* C30: an add_expense for a (user, category, month, year) that has no budget
\* row succeeds, fires no alert and sends no notification, whatever the
\* alerts of the user are.
C30_NoBudgetNoAlert ==
    UnbudgetedCall
        => /\ call.ok
           /\ call.evaluation.regime = "none"
           /\ call.evaluation.fired = << >>
           /\ call.evaluation.emails = << >>
           /\ call.evaluation.exceeded_emails = 0
           /\ call.undelivered = 0

C30_Witness ==
    /\ UnbudgetedCall
    /\ email_configured
    /\ \E i \in 1..Len(alerts) :
          /\ alerts[i].user_id = call.args.user_id
          /\ alerts[i].is_active
          /\ alerts[i].email_notification
    /\ \E b \in budgets : /\ b.user_id = call.args.user_id
                          /\ b.category_id = call.args.category_id
                          /\ b.amount <= call.args.amount

=============================================================================
